---- MODULE Spec2Model ----
(***************************************************************************)
(* Model of phi2-server.py: the Phi-2 forward pass as far as it touches    *)
(* the key/value cache (RoPEAttention, TransformerDecoder, Phi2), the      *)
(* token generator `generate`, its consumer `complete_text`, and the HTTP  *)
(* handler `api_completions`.                                              *)
(*                                                                         *)
(* Tensors are modelled by their sequence-axis length, text by a sequence  *)
(* of one-character strings, a temperature by its value in tenths, and     *)
(* Python list objects by references into `heap`.  Every variable that is  *)
(* local to a request is a function over the request sessions.             *)
(***************************************************************************)
EXTENDS Integers, Sequences, FiniteSets, TLC

VARIABLES
    sessions,           \* the requests served in this behaviour
    default_token_max,  \* module global, set at process start (15, 277)
    vocab,              \* the token ids the loaded weights can produce
    heap,               \* the cache list objects allocated so far
    lastFwd,            \* history: who ran the last forward pass, whose entries it read
    req,                \* the JSON body of the request
    pc,                 \* position of the handler
    err,                \* the exception raised, if any
    temp,               \* temp of api_completions / complete_text / generate
    prompt,             \* the prompt token ids
    tokens,             \* complete_text: the chunk being collected
    ret,                \* complete_text: the text returned
    eos,                \* complete_text: the break flag
    tk_gen,             \* complete_text: the completion token count
    taken,              \* history: the tokens zip delivered to the loop body
    gen,                \* state of the generator object
    y,                  \* generate: the token sampled last
    cache,              \* generate: its local `cache` (a reference, 0 = None)
    calls,              \* history: number of model(...) calls of the session
    nsampled,           \* history: number of sample(...) calls of the session
    lastCall,           \* history: the arguments of the last model(...) call
    sampler,            \* history: the branch sample(...) took last
    resp                \* the response of the handler

vars == <<sessions, default_token_max, vocab, heap, lastFwd, req, pc, err, temp, prompt,
          tokens, ret, eos, tk_gen, taken, gen, y, cache, calls, nsampled,
          lastCall, sampler, resp>>

----------------------------------------------------------------------------
(* Bounds of the model *)

MaxTokens == 12
\* largest --max_tokens explored for a single request

ConcMaxTokens == 1
\* largest --max_tokens explored with two interleaved requests

MaxSpecial == 2
\* at most this many tokens other than the ordinary one are sampled per request

MaxContent == 1
\* the message of a request tokenises to at most this many tokens

NumLayers == 2
\* ModelArgs.num_layers (32 in the released weights): the decoder layers
\* explored; each layer treats its cache entry alike, whatever their number

(* Program constants *)

ChunkSize == 10

DefaultTemp == 7

----------------------------------------------------------------------------
(* The tokenizer: text is a sequence of characters *)

Marker == <<"<", "|", "e", "n", "d", "o", "f", "t", "e", "x", "t", "|", ">">>

\* The token ids the sampler can return: an ordinary word piece, the
\* end-of-text token, and two ordinary pieces whose texts spell the marker
\* when they follow each other.
Vocab == {"w", "eot", "f1", "f2"}

TokenText(t) ==
    CASE t = "w"   -> <<" ", "a">>
      [] t = "eot" -> Marker
      [] t = "f1"  -> SubSeq(Marker, 1, 7)
      [] t = "f2"  -> SubSeq(Marker, 8, 13)

RECURSIVE Decode(_)
Decode(toks) ==
    IF toks = <<>> THEN <<>> ELSE TokenText(Head(toks)) \o Decode(Tail(toks))

\* the prompt string "%s: %s\n%s: " tokenised: the message, then the template
Tokenize(n) == [i \in 1..(n + 2) |-> IF i <= n THEN "u" ELSE "t"]

(* Python str methods *)

Occurs(s, m, i) == SubSeq(s, i, i + Len(m) - 1) = m

Find(s, m) ==
    LET I == {i \in 1..(Len(s) - Len(m) + 1) : Occurs(s, m, i)}
    IN  IF I = {} THEN -1 ELSE (CHOOSE i \in I : \A j \in I : i <= j) - 1

Split1Head(s, m) == IF Find(s, m) < 0 THEN s ELSE SubSeq(s, 1, Find(s, m))

Whitespace == {" ", "\n"}

RECURSIVE LStrip(_)
LStrip(s) ==
    IF s # <<>> /\ Head(s) \in Whitespace THEN LStrip(Tail(s)) ELSE s

RECURSIVE RStrip(_)
RStrip(s) ==
    IF s # <<>> /\ s[Len(s)] \in Whitespace
    THEN RStrip(SubSeq(s, 1, Len(s) - 1)) ELSE s

Strip(s) == RStrip(LStrip(s))

----------------------------------------------------------------------------
(* The forward pass *)

NoneEntry == [present |-> FALSE, klen |-> 0, vlen |-> 0, creator |-> "-"]

NoneList == [e \in 1..NumLayers |-> NoneEntry]

AttentionDropsValues(L, entry) ==
    IF entry.present
    THEN [klen |-> entry.klen + L, vlen |-> L]
    ELSE [klen |-> L, vlen |-> L]

\* RoPEAttention.__call__: the lengths of the (keys, values) it returns
RoPEAttention(L, entry) ==
    IF entry.present
    THEN [klen |-> entry.klen + L, vlen |-> entry.vlen + L]
    ELSE [klen |-> L, vlen |-> L]

SharedCacheList(h, cacheArg) ==
    IF cacheArg = 0
    THEN [ref |-> 1, list |-> IF Len(h) = 0 THEN NoneList ELSE h[1]]
    ELSE [ref |-> cacheArg, list |-> h[cacheArg]]

\* TransformerDecoder.__call__, lines 105-106: the list the layers work on
CacheList(h, cacheArg) ==
    IF cacheArg = 0
    THEN [ref |-> Len(h) + 1, list |-> NoneList]
    ELSE [ref |-> cacheArg, list |-> h[cacheArg]]

\* TransformerDecoder.__call__, lines 108-110: every layer replaces its entry
TransformerDecoder(L, list, s) ==
    [e \in 1..NumLayers |->
        LET kv == RoPEAttention(L, list[e])
        IN  [present |-> TRUE, klen |-> kv.klen, vlen |-> kv.vlen,
             creator |-> IF list[e].present THEN list[e].creator ELSE s]]

MaskAlways(L) == L >= 1

\* Phi2.__call__, lines 136-139
CausalMaskBuilt(L) == L > 1

Store(h, ref, list) ==
    IF ref > Len(h) THEN Append(h, list) ELSE [h EXCEPT ![ref] = list]

Creators(list) == {list[e].creator : e \in {e \in 1..NumLayers : list[e].present}}

(* sample, lines 146-150 *)
SampleBranch(t) == IF t = 0 THEN "argmax" ELSE "categorical"

SpecialCount(toks) == Cardinality({i \in 1..Len(toks) : toks[i] # "w"})

WhileBounded(k) == k < 2

\* generate, line 156
WhileCond(k) == TRUE

CountChunkSize(n, toks) == n + ChunkSize

\* complete_text, lines 192 and 206: tk_gen += len(tokens)
CountChunk(n, toks) == n + Len(toks)

----------------------------------------------------------------------------
(* Requests *)

NoTemperature == [present |-> FALSE, value |-> 0]

Temperatures ==
    {NoTemperature} \cup {[present |-> TRUE, value |-> v] : v \in {-10, 0}}

Messages ==
    {m \in [role : BOOLEAN, content : BOOLEAN, ntok : 0..MaxContent] :
        ~m.content => m.ntok = 0}

MessageLists ==
    {[present |-> FALSE, list |-> <<>>], [present |-> TRUE, list |-> <<>>]}
    \cup {[present |-> TRUE, list |-> <<m>>] : m \in Messages}

Requests == [messages : MessageLists, temperature : Temperatures]

\* api_completions, lines 221-224: the exception the lookups raise, if any
LookupError(r) ==
    IF ~r.messages.present THEN "KeyError: messages"
    ELSE IF r.messages.list = <<>> THEN "IndexError"
    ELSE IF ~r.messages.list[1].role THEN "KeyError: role"
    ELSE IF ~r.messages.list[1].content THEN "KeyError: content"
    ELSE "-"

NoCall == [inputs |-> <<>>, cacheIn |-> 0, mask |-> FALSE]

NoResp == [status |-> "-", prompt_tokens |-> 0, completion_tokens |-> 0,
           total_tokens |-> 0, content |-> <<>>]

----------------------------------------------------------------------------
(* Initial states *)

InitSessions(S, N, V, R) ==
    /\ sessions = S
    /\ default_token_max \in 0..N
    /\ vocab = V
    /\ heap = <<>>
    /\ lastFwd = [sess |-> "-", read |-> {}]
    /\ req \in [S -> R]
    /\ pc = [s \in S |-> "recv"]
    /\ err = [s \in S |-> "-"]
    /\ temp = [s \in S |-> 0]
    /\ prompt = [s \in S |-> <<>>]
    /\ tokens = [s \in S |-> <<>>]
    /\ ret = [s \in S |-> <<>>]
    /\ eos = [s \in S |-> FALSE]
    /\ tk_gen = [s \in S |-> 0]
    /\ taken = [s \in S |-> <<>>]
    /\ gen = [s \in S |-> "-"]
    /\ y = [s \in S |-> "-"]
    /\ cache = [s \in S |-> 0]
    /\ calls = [s \in S |-> 0]
    /\ nsampled = [s \in S |-> 0]
    /\ lastCall = [s \in S |-> NoCall]
    /\ sampler = [s \in S |-> "-"]
    /\ resp = [s \in S |-> NoResp]

\* one request
Init == InitSessions({"s1"}, MaxTokens, Vocab, Requests)

\* two requests served by two threads of the development server
ConcRequests ==
    {r \in Requests : ~r.temperature.present /\
        (r.messages.present => r.messages.list # <<>> /\ LookupError(r) = "-")}

\* weights that produce no piece of the marker other than the end-of-text token
ConcVocab == {"w", "eot"}

InitConc == InitSessions({"s1", "s2"}, ConcMaxTokens, ConcVocab, ConcRequests)

----------------------------------------------------------------------------
(* api_completions, lines 215-228, up to the first next() of the for loop  *)
(* of complete_text, lines 169-186                                         *)
ApiCompletions(s) ==
    /\ pc[s] = "recv"
    /\ IF LookupError(req[s]) # "-"
       THEN /\ err' = [err EXCEPT ![s] = LookupError(req[s])]
            /\ pc' = [pc EXCEPT ![s] = "raised"]
            /\ UNCHANGED <<temp, prompt, gen>>
       ELSE /\ temp' = [temp EXCEPT ![s] =
                   IF req[s].temperature.present
                   THEN req[s].temperature.value ELSE DefaultTemp]
            /\ prompt' = [prompt EXCEPT ![s] = Tokenize(req[s].messages.list[1].ntok)]
            /\ gen' = [gen EXCEPT ![s] = "created"]
            /\ pc' = [pc EXCEPT ![s] = "loop"]
            /\ UNCHANGED err
    /\ UNCHANGED <<sessions, default_token_max, vocab, heap, lastFwd, req, tokens, ret,
                   eos, tk_gen, taken, y, cache, calls, nsampled, lastCall,
                   sampler, resp>>

(* model(inputs, cache=cacheArg) followed by sample(...): Phi2.__call__,   *)
(* lines 128-142, and sample, lines 146-150                                *)
ModelCall(s, inputs, cacheArg, t) ==
    LET cl  == CacheList(heap, cacheArg)
        new == TransformerDecoder(Len(inputs), cl.list, s)
    IN  /\ heap' = Store(heap, cl.ref, new)
        /\ cache' = [cache EXCEPT ![s] = cl.ref]
        /\ lastFwd' = [sess |-> s, read |-> Creators(cl.list)]
        /\ lastCall' = [lastCall EXCEPT ![s] =
               [inputs |-> inputs, cacheIn |-> cacheArg,
                mask |-> CausalMaskBuilt(Len(inputs))]]
        /\ calls' = [calls EXCEPT ![s] = @ + 1]
        /\ y' = [y EXCEPT ![s] = t]
        /\ nsampled' = [nsampled EXCEPT ![s] = @ + 1]
        /\ sampler' = [sampler EXCEPT ![s] = SampleBranch(temp[s])]

(* generate, lines 152-159: zip resumes the generator, which runs to its   *)
(* next yield                                                              *)
GenNext(s) ==
    /\ pc[s] = "loop"
    /\ gen[s] \in {"created", "suspended"}
    /\ IF gen[s] = "suspended" /\ ~WhileCond(calls[s])
       THEN /\ gen' = [gen EXCEPT ![s] = "exhausted"]
            /\ pc' = [pc EXCEPT ![s] = "final"]
            /\ cache' = [cache EXCEPT ![s] = 0]
            /\ UNCHANGED <<heap, lastFwd, lastCall, calls, y, nsampled, sampler>>
       ELSE /\ \E t \in vocab :
                /\ t # "w" => SpecialCount(taken[s]) < MaxSpecial
                /\ IF gen[s] = "created"
                   THEN ModelCall(s, prompt[s], 0, t)
                   ELSE ModelCall(s, <<y[s]>>, cache[s], t)
            /\ gen' = [gen EXCEPT ![s] = "suspended"]
            /\ pc' = [pc EXCEPT ![s] = "yielded"]
    /\ UNCHANGED <<sessions, default_token_max, vocab, req, err, temp, prompt, tokens,
                   ret, eos, tk_gen, taken, resp>>

(* complete_text, lines 186-200: zip asks range(max_tokens) for its next   *)
(* index; with one, the loop body runs on the token, without, the loop     *)
(* ends and the token is dropped                                           *)
ZipRange(s) ==
    /\ pc[s] = "yielded"
    /\ IF Len(taken[s]) < default_token_max
       THEN LET toks == Append(tokens[s], y[s])
                str  == Decode(toks)
            IN  /\ taken' = [taken EXCEPT ![s] = Append(@, y[s])]
                /\ IF Len(toks) % ChunkSize = 0
                   THEN /\ tk_gen' = [tk_gen EXCEPT ![s] = CountChunk(@, toks)]
                        /\ tokens' = [tokens EXCEPT ![s] = <<>>]
                        /\ IF Find(str, Marker) >= 0
                           THEN /\ eos' = [eos EXCEPT ![s] = TRUE]
                                /\ pc' = [pc EXCEPT ![s] = "final"]
                                /\ gen' = [gen EXCEPT ![s] = "closed"]
                                /\ cache' = [cache EXCEPT ![s] = 0]
                                /\ UNCHANGED ret
                           ELSE /\ ret' = [ret EXCEPT ![s] = @ \o str]
                                /\ pc' = [pc EXCEPT ![s] = "loop"]
                                /\ UNCHANGED <<eos, gen, cache>>
                   ELSE /\ tokens' = [tokens EXCEPT ![s] = toks]
                        /\ pc' = [pc EXCEPT ![s] = "loop"]
                        /\ UNCHANGED <<tk_gen, eos, ret, gen, cache>>
       ELSE /\ pc' = [pc EXCEPT ![s] = "final"]
            /\ gen' = [gen EXCEPT ![s] = "closed"]
            /\ cache' = [cache EXCEPT ![s] = 0]
            /\ UNCHANGED <<taken, tokens, tk_gen, eos, ret>>
    /\ UNCHANGED <<sessions, default_token_max, vocab, heap, lastFwd, req, err, temp,
                   prompt, y, calls, nsampled, lastCall, sampler, resp>>

(* complete_text, lines 202-212 *)
Finish(s) ==
    /\ pc[s] = "final"
    /\ IF ~eos[s]
       THEN LET str == Decode(tokens[s])
            IN  /\ tk_gen' = [tk_gen EXCEPT ![s] = CountChunk(@, tokens[s])]
                /\ tokens' = [tokens EXCEPT ![s] = <<>>]
                /\ ret' = [ret EXCEPT ![s] =
                       @ \o (IF Find(str, Marker) >= 0
                             THEN Split1Head(str, Marker) ELSE str)]
       ELSE UNCHANGED <<tk_gen, tokens, ret>>
    /\ pc' = [pc EXCEPT ![s] = "returned"]
    /\ UNCHANGED <<sessions, default_token_max, vocab, heap, lastFwd, req, err, temp,
                   prompt, eos, taken, gen, y, cache, calls, nsampled, lastCall,
                   sampler, resp>>

(* api_completions, lines 228-253 *)
Respond(s) ==
    /\ pc[s] = "returned"
    /\ resp' = [resp EXCEPT ![s] =
           [status |-> "stop",
            prompt_tokens |-> Len(prompt[s]),
            completion_tokens |-> tk_gen[s],
            total_tokens |-> Len(prompt[s]) + tk_gen[s],
            content |-> Strip(ret[s])]]
    /\ pc' = [pc EXCEPT ![s] = "responded"]
    /\ UNCHANGED <<sessions, default_token_max, vocab, heap, lastFwd, req, err, temp,
                   prompt, tokens, ret, eos, tk_gen, taken, gen, y, cache, calls,
                   nsampled, lastCall, sampler>>

Next ==
    \/ \E s \in sessions : ApiCompletions(s)
    \/ \E s \in sessions : GenNext(s)
    \/ \E s \in sessions : ZipRange(s)
    \/ \E s \in sessions : Finish(s)
    \/ \E s \in sessions : Respond(s)

Spec == Init /\ [][Next]_vars

SpecConc == InitConc /\ [][Next]_vars

----------------------------------------------------------------------------
(* Properties *)

Returned(s) == pc[s] \in {"returned", "responded"}

MarkerDecoded(s) == Find(Decode(taken[s]), Marker) >= 0

LayerEntry(s, e) == heap[cache[s]][e]

\* C1: when complete_text has returned with max_tokens = N, then if the
\* decoded generation holds no end-of-sequence marker exactly N tokens were
\* consumed and counted, and if it holds one at most N tokens were consumed
\* and the returned text does not contain the marker.
C1_Termination ==
    \A s \in sessions :
        Returned(s) =>
            IF ~MarkerDecoded(s)
            THEN Len(taken[s]) = default_token_max /\ tk_gen[s] = default_token_max
            ELSE Len(taken[s]) <= default_token_max /\ Find(ret[s], Marker) < 0

C2_LengthOK ==
    \A s \in sessions :
        cache[s] # 0 =>
            \A e \in 1..NumLayers :
                /\ LayerEntry(s, e).present
                /\ LayerEntry(s, e).klen = LayerEntry(s, e).vlen
                /\ LayerEntry(s, e).klen = Len(prompt[s]) + (calls[s] - 1)

C2_NonDecreasing ==
    \A s \in sessions :
        cache[s] # 0 /\ cache'[s] # 0 =>
            \A e \in 1..NumLayers :
                /\ heap'[cache'[s]][e].klen >= heap[cache[s]][e].klen
                /\ heap'[cache'[s]][e].vlen >= heap[cache[s]][e].vlen

\* C2: while a generation session holds a cache, after the prompt pass and
\* after every decode step i every layer's entry holds keys and values of
\* one length, prompt_length + i, and no step makes that length smaller.
C2_CacheLength == []C2_LengthOK /\ [][C2_NonDecreasing]_vars

C2_Witness ==
    \E s \in sessions :
        /\ cache[s] # 0
        /\ calls[s] = 4
        /\ \A e \in 1..NumLayers : LayerEntry(s, e).vlen = Len(prompt[s]) + 3

\* C3: with interleaved requests every session's cache list is its own: no
\* two sessions hold the same list, every entry of a session's list was
\* created by that session and has the length the session alone gives it,
\* and no forward pass reads an entry another session created.
C3_Isolation ==
    /\ \A s \in sessions :
        cache[s] # 0 =>
            /\ \A u \in sessions \ {s} : cache[u] # cache[s]
            /\ \A e \in 1..NumLayers :
                /\ LayerEntry(s, e).present
                /\ LayerEntry(s, e).creator = s
                /\ LayerEntry(s, e).klen = Len(prompt[s]) + (calls[s] - 1)
                /\ LayerEntry(s, e).vlen = Len(prompt[s]) + (calls[s] - 1)
    /\ lastFwd.read \subseteq {lastFwd.sess}

C3_Witness ==
    /\ cache["s1"] # 0 /\ cache["s2"] # 0
    /\ calls["s1"] = 2 /\ calls["s2"] = 1
    /\ Len(prompt["s1"]) # Len(prompt["s2"])
    /\ lastFwd = [sess |-> "s1", read |-> {"s1"}]

\* C4: a request whose temperature is negative is rejected: nothing is
\* sampled for it and complete_text returns no completion for it.
C4_NegativeRejected ==
    \A s \in sessions :
        (req[s].temperature.present /\ req[s].temperature.value < 0) =>
            nsampled[s] = 0 /\ ~Returned(s)

\* C5: no error of a request leaves the handler: a request whose lookups
\* fail is either still to be handled or answered with an error response.
C5_ErrorsCaught ==
    \A s \in sessions :
        LookupError(req[s]) # "-" =>
            pc[s] = "recv" \/ (pc[s] = "responded" /\ resp[s].status = "error")

C6_NeverExhausted == \A s \in sessions : gen[s] # "exhausted"

C6_RequestYields ==
    \A s \in sessions :
        /\ (pc[s] = "loop" /\ pc'[s] # "loop") =>
              /\ pc'[s] = "yielded"
              /\ gen'[s] = "suspended"
              /\ calls'[s] = calls[s] + 1
              /\ nsampled'[s] = nsampled[s] + 1
              /\ y'[s] \in Vocab
              /\ gen[s] = "suspended" => Len(lastCall'[s].inputs) = 1
        /\ (gen[s] \in {"created", "suspended"} /\ gen'[s] \notin {"created", "suspended"}) =>
              /\ gen'[s] = "closed"
              /\ pc[s] = "yielded" /\ pc'[s] = "final"

\* C6: the generator never finishes by itself: whenever the consumer asks
\* for a token, after any number of tokens, it runs one model call, samples
\* and yields; it stops only when the consumer leaves its loop.
C6_Unbounded == []C6_NeverExhausted /\ [][C6_RequestYields]_vars

C6_Witness ==
    \E s \in sessions :
        pc[s] = "yielded" /\ gen[s] = "suspended" /\ calls[s] = 5 /\ Len(taken[s]) = 4

\* C7: when the decoded generation holds a marker, the text complete_text
\* returns is exactly the decoded text in front of the first marker.
C7_TextBeforeMarker ==
    \A s \in sessions :
        (Returned(s) /\ MarkerDecoded(s)) =>
            ret[s] = Split1Head(Decode(taken[s]), Marker)

C8_CallArguments ==
    \A s \in sessions :
        calls'[s] # calls[s] =>
            /\ calls'[s] = calls[s] + 1
            /\ calls[s] = 0 =>
                  lastCall'[s].inputs = prompt[s] /\ lastCall'[s].cacheIn = 0
            /\ calls[s] > 0 =>
                  /\ lastCall'[s].inputs = <<y[s]>>
                  /\ lastCall'[s].cacheIn = cache[s]
                  /\ cache[s] # 0
            /\ lastCall'[s].mask <=> Len(lastCall'[s].inputs) > 1
            /\ ~(lastCall'[s].mask /\ lastCall'[s].cacheIn # 0)

\* C8: the first model call of a session gets the whole prompt and no
\* cache, every later one gets the one token sampled last and the cache the
\* call before returned; a mask is built exactly on calls over more than
\* one position, and never together with a prior cache.
C8_CallDiscipline == [][C8_CallArguments]_vars

C8_Witness ==
    \E s \in sessions :
        /\ calls[s] = 3
        /\ lastCall[s] = [inputs |-> <<"eot">>, cacheIn |-> cache[s], mask |-> FALSE]
        /\ cache[s] # 0

\* C9: when complete_text has returned, the number of forward passes of the
\* request equals the number of tokens its loop was given.
C9_NoWastedPass ==
    \A s \in sessions : Returned(s) => calls[s] = Len(taken[s])

====
